---- MODULE Spec2Model ----
(***************************************************************************)
(* Model of periodic-reflection-report/scripts/analyze_emotion_timeline.py *)
(*                                                                         *)
(* Strings are sequences of one-character tokens; the line-break marker    *)
(* "<br>" is a single token.  A date string is a sequence of digits, each  *)
(* digit standing for its character, so that Python's str ordering is the  *)
(* lexicographic ordering of the sequences.  Polarity and subjectivity are *)
(* integers in units of 0.0001; the values stored after round(x, 3) are    *)
(* integers in units of 0.001.                                             *)
(***************************************************************************)
EXTENDS Integers, Sequences, FiniteSets, TLC

VARIABLES
    payload,    \* main: the parsed input document (json.loads result)
    pc,         \* position of the running function
    idx,        \* main: number of elements of records the loop has consumed
    analyzed,   \* main: the list of DayEmotion built so far
    calls,      \* per consumed element, the capability calls made for it
    out_file,   \* documents written to emotion_timeline.json, in order
    args,       \* arguments of the function under check (function specs)
    ret         \* its return value

vars == <<payload, pc, idx, analyzed, calls, out_file, args, ret>>

(***************************************************************************)
(* Bounds                                                                  *)
(***************************************************************************)
MaxRecords == 3      \* longest records list
ChunkSize == 2       \* stands in for the default chunk_size of 3000
MaxLen == 5          \* longest string given to _chunk_text on its own
MaxChunk == 3        \* largest chunk_size given to _chunk_text on its own
MaxDays == 5         \* longest list given to summarize on its own
MaxRaw == 10500      \* largest magnitude the scorer returns to analyze_record on its own

(***************************************************************************)
(* Helpers: Python built-ins                                               *)
(***************************************************************************)
Min(a, b) == IF a <= b THEN a ELSE b
Max(a, b) == IF a >= b THEN a ELSE b

RECURSIVE SumSeq(_)
SumSeq(s) == IF s = <<>> THEN 0 ELSE Head(s) + SumSeq(Tail(s))

\* s[a:b] for 0 <= a <= b <= len(s)
Slice(s, a, b) == SubSeq(s, a + 1, b)

Whitespace == {" ", "\n"}

RECURSIVE LStrip(_)
LStrip(s) == IF s # <<>> /\ Head(s) \in Whitespace THEN LStrip(Tail(s)) ELSE s

RECURSIVE RStrip(_)
RStrip(s) ==
    IF s # <<>> /\ s[Len(s)] \in Whitespace THEN RStrip(SubSeq(s, 1, Len(s) - 1)) ELSE s

\* str.strip()
Strip(s) == RStrip(LStrip(s))

\* sep.join(parts)
RECURSIVE Join(_, _)
Join(sep, parts) ==
    IF parts = <<>> THEN <<>>
    ELSE IF Len(parts) = 1 THEN parts[1]
    ELSE parts[1] \o sep \o Join(sep, Tail(parts))

\* round(x, 3) of x given in units of 0.0001: the nearest multiple of 0.001,
\* in units of 0.001, a tie going to the even neighbour
Round3(x) ==
    LET q == x \div 10
        r == x % 10
    IN  IF r < 5 THEN q
        ELSE IF r > 5 THEN q + 1
        ELSE IF q % 2 = 0 THEN q ELSE q + 1

\* round(total / n, 3) for total in units of 0.001 and n > 0
RoundDiv(total, n) ==
    LET q == total \div n
        r == total % n
    IN  IF 2 * r < n THEN q
        ELSE IF 2 * r > n THEN q + 1
        ELSE IF q % 2 = 0 THEN q ELSE q + 1

\* a < b for Python strings
RECURSIVE StrLess(_, _)
StrLess(a, b) ==
    IF b = <<>> THEN FALSE
    ELSE IF a = <<>> THEN TRUE
    ELSE IF Head(a) # Head(b) THEN Head(a) < Head(b)
    ELSE StrLess(Tail(a), Tail(b))

\* dict.get(key, default)
Get(d, key, default) == IF key \in DOMAIN d THEN d[key] ELSE default

(***************************************************************************)
(* _norm_text, _chunk_text                                                 *)
(***************************************************************************)
_norm_text(value) ==
    IF value = <<>> THEN <<>>
    ELSE [i \in 1..Len(value) |-> IF value[i] = "<br>" THEN "\n" ELSE value[i]]

\* a _chunk_text whose next chunk starts one character late
RECURSIVE ChunkLoopSkipping(_, _, _, _)
ChunkLoopSkipping(text, chunk_size, start, chunks) ==
    IF start < Len(text)
    THEN LET end == Min(start + chunk_size, Len(text))
         IN  ChunkLoopSkipping(text, chunk_size, end + 1,
                               Append(chunks, Slice(text, start, end)))
    ELSE chunks

RECURSIVE ChunkLoop(_, _, _, _)
ChunkLoop(text, chunk_size, start, chunks) ==
    IF start < Len(text)
    THEN LET end == Min(start + chunk_size, Len(text))
         IN  ChunkLoop(text, chunk_size, end, Append(chunks, Slice(text, start, end)))
    ELSE chunks

\* chunk_size >= 1; the loop does not terminate on a non-empty text otherwise
_chunk_text(text, chunk_size) ==
    IF Len(text) <= chunk_size THEN <<text>>
    ELSE ChunkLoop(text, chunk_size, 0, <<>>)

(***************************************************************************)
(* _translate_ja_to_en.  The translation capability is external: failAt is *)
(* the number of the first translator.translate call that raises (0 when   *)
(* none does), and a call that returns gives En(chunk).                    *)
(***************************************************************************)
En(chunk) ==
    [i \in 1..Len(chunk) |->
        IF chunk[i] = "a" THEN "A" ELSE IF chunk[i] = "b" THEN "B" ELSE chunk[i]]

\* a call of translator.translate as the log of calls keeps it
TranslateCall(chunk, ok) ==
    [cap |-> "translate", arg |-> chunk, ok |-> ok,
     value |-> IF ok THEN En(chunk) ELSE <<>>]

\* a _translate_ja_to_en that keeps what was translated before the failure
TranslateKeepingParts(text, failAt) ==
    LET chunks == _chunk_text(text, ChunkSize)
        fails == failAt \in 1..Len(chunks)
        made == IF fails THEN failAt ELSE Len(chunks)
        done == IF fails THEN failAt - 1 ELSE Len(chunks)
    IN  [raised |-> FALSE,
         value |-> Join(<<"\n">>, [i \in 1..done |-> En(chunks[i])]),
         calls |-> [i \in 1..made |-> TranslateCall(chunks[i], ~(fails /\ i = failAt))]]

_translate_ja_to_en(text, failAt) ==
    LET chunks == _chunk_text(text, ChunkSize)
        fails == failAt \in 1..Len(chunks)
        made == IF fails THEN failAt ELSE Len(chunks)
    IN  [raised |-> fails,
         value |-> IF fails THEN <<>>
                   ELSE Join(<<"\n">>, [i \in 1..Len(chunks) |-> En(chunks[i])]),
         calls |-> [i \in 1..made |-> TranslateCall(chunks[i], ~(fails /\ i = failAt))]]

(***************************************************************************)
(* _to_label, _to_emotions                                                 *)
(***************************************************************************)
\* a _to_label whose thresholds are exclusive
ToLabelExclusive(polarity) ==
    IF polarity > 2000 THEN "positive"
    ELSE IF polarity < -2000 THEN "negative"
    ELSE "neutral"

_to_label(polarity) ==
    IF polarity >= 2000 THEN "positive"
    ELSE IF polarity <= -2000 THEN "negative"
    ELSE "neutral"

_to_emotions(polarity, subjectivity) ==
    IF polarity >= 4500
    THEN (IF subjectivity >= 4500 THEN <<"joy", "confidence">> ELSE <<"calm", "confidence">>)
    ELSE IF polarity >= 1500 THEN <<"calm", "confidence">>
    ELSE IF polarity <= -4500
    THEN (IF subjectivity >= 4500 THEN <<"frustration", "anxiety">> ELSE <<"anxiety", "calm">>)
    ELSE IF polarity <= -1500 THEN <<"anxiety", "calm">>
    ELSE <<"calm">>

(***************************************************************************)
(* analyze_record.  The scoring capability is external: sc is what         *)
(* TextBlob(translated).sentiment does, raising when sc.ok is FALSE and    *)
(* giving sc.polarity and sc.subjectivity otherwise.                       *)
(***************************************************************************)
DayEmotion(date, sentiment_score, sentiment_label, subjectivity, dominant_emotions) ==
    [date |-> date,
     sentiment_score |-> sentiment_score,
     sentiment_label |-> sentiment_label,
     subjectivity |-> subjectivity,
     dominant_emotions |-> dominant_emotions]

TextKeys == <<"experience", "reflection", "abstraction", "next_action">>

\* the joined text without .strip()
JoinedUnstripped(record) ==
    Join(<<"\n">>, [k \in 1..4 |-> _norm_text(Get(record, TextKeys[k], <<>>))])

Joined(record) ==
    Strip(Join(<<"\n">>, [k \in 1..4 |-> _norm_text(Get(record, TextKeys[k], <<>>))]))

\* a use of TextBlob(text).sentiment as the log of calls keeps it
ScoreCall(text, sc) ==
    [cap |-> "score", arg |-> text, ok |-> sc.ok,
     value |-> IF sc.ok THEN <<sc.polarity, sc.subjectivity>> ELSE <<>>]

\* an analyze_record that catches the scorer's failure and returns the
\* neutral DayEmotion
AnalyzeRecordCatching(record, failAt, sc) ==
    LET date == Get(record, "date", <<>>)
        joined == Joined(record)
        tr == _translate_ja_to_en(joined, failAt)
        translated == IF tr.raised THEN joined ELSE tr.value
        polarity == Max(-10000, Min(10000, sc.polarity))
        subjectivity == Max(0, Min(10000, sc.subjectivity))
    IN  IF joined = <<>>
        THEN [raised |-> FALSE,
              days |-> <<DayEmotion(date, 0, "neutral", 0, <<"calm">>)>>,
              calls |-> <<>>]
        ELSE IF ~sc.ok
        THEN [raised |-> FALSE,
              days |-> <<DayEmotion(date, 0, "neutral", 0, <<"calm">>)>>,
              calls |-> Append(tr.calls, ScoreCall(translated, sc))]
        ELSE [raised |-> FALSE,
              days |-> <<DayEmotion(date, Round3(polarity), _to_label(polarity),
                                    Round3(subjectivity),
                                    _to_emotions(polarity, subjectivity))>>,
              calls |-> Append(tr.calls, ScoreCall(translated, sc))]

\* returns what the call does: raised, the DayEmotion returned (a list of
\* one, empty when the call raises) and the capability calls made, in order
analyze_record(record, failAt, sc) ==
    LET date == Get(record, "date", <<>>)
        joined == Joined(record)
        tr == _translate_ja_to_en(joined, failAt)
        translated == IF tr.raised THEN joined ELSE tr.value
        polarity == Max(-10000, Min(10000, sc.polarity))
        subjectivity == Max(0, Min(10000, sc.subjectivity))
        label == _to_label(polarity)
        dominant == _to_emotions(polarity, subjectivity)
    IN  IF joined = <<>>
        THEN [raised |-> FALSE,
              days |-> <<DayEmotion(date, 0, "neutral", 0, <<"calm">>)>>,
              calls |-> <<>>]
        ELSE IF ~sc.ok
        THEN [raised |-> TRUE,
              days |-> <<>>,
              calls |-> Append(tr.calls, ScoreCall(translated, sc))]
        ELSE [raised |-> FALSE,
              days |-> <<DayEmotion(date, Round3(polarity), label,
                                    Round3(subjectivity), dominant)>>,
              calls |-> Append(tr.calls, ScoreCall(translated, sc))]

(***************************************************************************)
(* summarize                                                               *)
(***************************************************************************)
\* emotion_counts[e] = emotion_counts.get(e, 0) + 1 on a dict kept as the
\* list of its items in insertion order
CountEmotion(emotion_counts, e) ==
    IF \E i \in 1..Len(emotion_counts) : emotion_counts[i].name = e
    THEN [i \in 1..Len(emotion_counts) |->
            IF emotion_counts[i].name = e
            THEN [name |-> e, count |-> emotion_counts[i].count + 1]
            ELSE emotion_counts[i]]
    ELSE Append(emotion_counts, [name |-> e, count |-> 1])

RECURSIVE CountEmotions(_, _)
CountEmotions(emotion_counts, emotions) ==
    IF emotions = <<>> THEN emotion_counts
    ELSE CountEmotions(CountEmotion(emotion_counts, Head(emotions)), Tail(emotions))

RECURSIVE TallyEmotions(_, _)
TallyEmotions(emotion_counts, days) ==
    IF days = <<>> THEN emotion_counts
    ELSE TallyEmotions(CountEmotions(emotion_counts, Head(days).dominant_emotions), Tail(days))

CountLabel(days, label) == Cardinality({i \in 1..Len(days) : days[i].sentiment_label = label})

\* an insertion that puts x before the items of equal count
InsertByCountUnstable(sorted, x) ==
    LET smaller == {i \in 1..Len(sorted) : sorted[i].count <= x.count}
        at == IF smaller = {} THEN Len(sorted) + 1
              ELSE CHOOSE i \in smaller : \A j \in smaller : i <= j
    IN  SubSeq(sorted, 1, at - 1) \o <<x>> \o SubSeq(sorted, at, Len(sorted))

\* x goes before the first item with a smaller count: equal counts keep
\* their order (sorted is stable, also with reverse=True)
InsertByCount(sorted, x) ==
    LET smaller == {i \in 1..Len(sorted) : sorted[i].count < x.count}
        at == IF smaller = {} THEN Len(sorted) + 1
              ELSE CHOOSE i \in smaller : \A j \in smaller : i <= j
    IN  SubSeq(sorted, 1, at - 1) \o <<x>> \o SubSeq(sorted, at, Len(sorted))

RECURSIVE SortByCountDesc(_, _)
SortByCountDesc(sorted, items) ==
    IF items = <<>> THEN sorted
    ELSE SortByCountDesc(InsertByCount(sorted, Head(items)), Tail(items))

Scores(days) == [i \in 1..Len(days) |-> days[i].sentiment_score]

\* a trend whose first half gets the extra day of an odd number of days
TrendFirstHalfLonger(days) ==
    LET n == Len(days)
        half == (n + 1) \div 2
        n1 == Max(1, half)
        n2 == Max(1, n - half)
        sum1 == SumSeq(Scores(Slice(days, 0, half)))
        sum2 == SumSeq(Scores(Slice(days, half, n)))
    IN  IF n >= 4
        THEN (IF sum2 * n1 - sum1 * n2 > 120 * n1 * n2 THEN "improving"
              ELSE IF sum2 * n1 - sum1 * n2 < (-120) * n1 * n2 THEN "declining"
              ELSE "stable")
        ELSE "stable"

Trend(days) ==
    LET n == Len(days)
        half == n \div 2
        n1 == Max(1, half)
        n2 == Max(1, n - half)
        sum1 == SumSeq(Scores(Slice(days, 0, half)))
        sum2 == SumSeq(Scores(Slice(days, half, n)))
    IN  IF n >= 4
        THEN \* delta = sum2 / n2 - sum1 / n1 against 0.12, times n1 * n2
             (IF sum2 * n1 - sum1 * n2 > 120 * n1 * n2 THEN "improving"
              ELSE IF sum2 * n1 - sum1 * n2 < (-120) * n1 * n2 THEN "declining"
              ELSE "stable")
        ELSE "stable"

summarize(days) ==
    IF days = <<>>
    THEN [days |-> 0,
          average_sentiment |-> 0,
          average_subjectivity |-> 0,
          label_counts |-> [positive |-> 0, neutral |-> 0, negative |-> 0],
          trend |-> "insufficient_data",
          most_common_emotions |-> <<>>]
    ELSE LET common_emotions ==
                 SortByCountDesc(<<>>, TallyEmotions(<<>>, days))
         IN  [days |-> Len(days),
              average_sentiment |-> RoundDiv(SumSeq(Scores(days)), Len(days)),
              average_subjectivity |->
                  RoundDiv(SumSeq([i \in 1..Len(days) |-> days[i].subjectivity]), Len(days)),
              label_counts |-> [positive |-> CountLabel(days, "positive"),
                                neutral |-> CountLabel(days, "neutral"),
                                negative |-> CountLabel(days, "negative")],
              trend |-> Trend(days),
              most_common_emotions |-> Slice(common_emotions, 0, Min(3, Len(common_emotions)))]

(***************************************************************************)
(* main                                                                    *)
(***************************************************************************)
\* an insertion that orders the dates descending
InsertByDateDescending(sorted, d) ==
    LET smaller == {i \in 1..Len(sorted) : StrLess(sorted[i].date, d.date)}
        at == IF smaller = {} THEN Len(sorted) + 1
              ELSE CHOOSE i \in smaller : \A j \in smaller : i <= j
    IN  SubSeq(sorted, 1, at - 1) \o <<d>> \o SubSeq(sorted, at, Len(sorted))

\* d goes before the first item with a greater date: equal dates keep
\* their order (list.sort is stable)
InsertByDate(sorted, d) ==
    LET greater == {i \in 1..Len(sorted) : StrLess(d.date, sorted[i].date)}
        at == IF greater = {} THEN Len(sorted) + 1
              ELSE CHOOSE i \in greater : \A j \in greater : i <= j
    IN  SubSeq(sorted, 1, at - 1) \o <<d>> \o SubSeq(sorted, at, Len(sorted))

RECURSIVE SortInto(_, _)
SortInto(sorted, days) ==
    IF days = <<>> THEN sorted
    ELSE SortInto(InsertByDate(sorted, Head(days)), Tail(days))

\* a main that leaves analyzed in input order
SortByDateMissing(days) == days

\* analyzed.sort(key=lambda d: d.date)
SortByDate(days) == SortInto(<<>>, days)

\* the document main writes for the list analyzed as the loop leaves it
Document(days) ==
    LET sorted == SortByDate(days)
    IN  [summary |-> summarize(sorted), timeline |-> sorted]

\* JSON values other than the strings of a record's fields carry their type
JList(elems) == [type |-> "list", elems |-> elems]
JDict(items) == [type |-> "dict", items |-> items]
JStr(s) == [type |-> "str", s |-> s]

\* a records that falls back to the empty list for a value of any other type
RecordsOrEmpty ==
    IF "records" \in DOMAIN payload /\ payload["records"].type = "list"
    THEN payload["records"]
    ELSE JList(<<>>)

\* records = payload.get("records", [])
records == Get(payload, "records", JList(<<>>))

IsDict(i) == records.elems[i].type = "dict"

(***************************************************************************)
(* Inputs of a batch run                                                   *)
(***************************************************************************)
RecordSamples ==
    { JDict(<<>>),
      JDict([date |-> <<2>>, experience |-> <<>>, reflection |-> <<>>,
             abstraction |-> <<>>, next_action |-> <<>>]),
      JDict([date |-> <<1, 0>>, reflection |-> <<"<br>", " ">>]),
      JDict([date |-> <<2>>, experience |-> <<"a">>]),
      JDict([date |-> <<1, 0>>, reflection |-> <<"b">>]),
      JDict([date |-> <<1, 0>>, experience |-> <<"a", "<br>">>, next_action |-> <<"b">>]),
      JDict([abstraction |-> <<"a">>]),
      JStr(<<"a">>) }

PayloadSamples ==
    { <<>>,
      [records |-> JStr(<<"a">>)],
      [records |-> JDict([date |-> <<2>>, experience |-> <<"a">>])] }
    \cup { [records |-> JList(elems)] :
             elems \in UNION {[1..n -> RecordSamples] : n \in 0..MaxRecords} }

\* what the scoring capability may do on a call
ScoreSamples == { <<-5000, 6000>>, <<1800, 3000>> }

ScoreOutcomes ==
    { [ok |-> FALSE, polarity |-> 0, subjectivity |-> 0] }
    \cup { [ok |-> TRUE, polarity |-> ps[1], subjectivity |-> ps[2]] : ps \in ScoreSamples }

IdleCall ==
    /\ args = <<>>
    /\ ret = <<>>

Init ==
    /\ payload \in PayloadSamples
    /\ pc = "load"
    /\ idx = 0
    /\ analyzed = <<>>
    /\ calls = <<>>
    /\ out_file = <<>>
    /\ IdleCall

\* lines 161-166
Load ==
    /\ pc = "load"
    /\ pc' = IF records.type # "list" THEN "raised" ELSE "loop"
    /\ UNCHANGED <<payload, idx, analyzed, calls, out_file, args, ret>>

\* lines 168-170, an element that is not a dict
LoopSkip ==
    /\ pc = "loop"
    /\ idx < Len(records.elems)
    /\ ~IsDict(idx + 1)
    /\ idx' = idx + 1
    /\ calls' = Append(calls, <<>>)
    /\ UNCHANGED <<payload, pc, analyzed, out_file, args, ret>>

\* lines 168-171, an element that is a dict
LoopAnalyze ==
    /\ pc = "loop"
    /\ idx < Len(records.elems)
    /\ IsDict(idx + 1)
    /\ LET rec == records.elems[idx + 1].items
       IN  \E failAt \in 0..Len(_chunk_text(Joined(rec), ChunkSize)), sc \in ScoreOutcomes :
             LET r == analyze_record(rec, failAt, sc)
             IN  /\ idx' = idx + 1
                 /\ calls' = Append(calls, r.calls)
                 /\ analyzed' = analyzed \o r.days
                 /\ pc' = IF r.raised THEN "raised" ELSE "loop"
    /\ UNCHANGED <<payload, out_file, args, ret>>

\* lines 173-192
Finish ==
    /\ pc = "loop"
    /\ idx = Len(records.elems)
    /\ analyzed' = SortByDate(analyzed)
    /\ out_file' = Append(out_file, Document(analyzed))
    /\ pc' = "done"
    /\ UNCHANGED <<payload, idx, calls, args, ret>>

Next == Load \/ LoopSkip \/ LoopAnalyze \/ Finish

Spec == Init /\ [][Next]_vars

(***************************************************************************)
(* Properties of a batch run                                               *)
(***************************************************************************)
\* the number of dicts among the first n elements of records
DictCount(n) == Cardinality({i \in 1..n : IsDict(i)})

Failed(log, cap) == \E k \in 1..Len(log) : log[k].cap = cap /\ ~log[k].ok

NeutralDay(date) == DayEmotion(date, 0, "neutral", 0, <<"calm">>)

\* C1: a failure of the scoring capability for a mapping record is not
\* caught: no later record is analyzed, the run ends failed and the output
\* document is never written; whenever the document has been written every
\* mapping element of records was analyzed successfully, and a successful
\* run has written it exactly once.
C1_ScoringFailureAborts ==
    /\ \A i \in 1..Len(calls) :
          Failed(calls[i], "score") =>
              /\ pc = "raised"
              /\ idx = i
              /\ Len(calls) = i
              /\ out_file = <<>>
    /\ pc = "raised" => out_file = <<>>
    /\ out_file # <<>> =>
          /\ Len(out_file) = 1
          /\ Len(calls) = Len(records.elems)
          /\ \A i \in 1..Len(records.elems) : ~Failed(calls[i], "score")
          /\ Len(out_file[1].timeline) = DictCount(Len(records.elems))
    /\ pc = "done" => Len(out_file) = 1

C1_Witness ==
    /\ pc = "raised"
    /\ idx > 1
    /\ idx < Len(records.elems)
    /\ Failed(calls[idx], "score")
    /\ analyzed # <<>>
    /\ IsDict(idx + 1)

\* C2 as stated: a payload without a records field, or with one that is not
\* a sequence, aborts the run: nothing is analyzed and nothing is written.
C2_MissingOrNonListAborts ==
    ("records" \notin DOMAIN payload \/ payload["records"].type # "list") =>
        /\ pc \in {"load", "raised"}
        /\ analyzed = <<>>
        /\ calls = <<>>
        /\ out_file = <<>>

\* C2 as amended: a records field that is present and not a sequence aborts
\* the run with nothing analyzed and nothing written; a payload without a
\* records field is read as an empty sequence, the run does not abort and
\* writes the document of zero days.
C2_NonListAborts ==
    /\ ("records" \in DOMAIN payload /\ payload["records"].type # "list") =>
          /\ pc \in {"load", "raised"}
          /\ idx = 0
          /\ analyzed = <<>>
          /\ calls = <<>>
          /\ out_file = <<>>
    /\ "records" \notin DOMAIN payload =>
          /\ pc \in {"load", "loop", "done"}
          /\ analyzed = <<>>
          /\ calls = <<>>
          /\ (pc = "done" =>
                /\ Len(out_file) = 1
                /\ out_file[1].timeline = <<>>
                /\ out_file[1].summary.days = 0
                /\ out_file[1].summary.trend = "insufficient_data")

C2_Witness ==
    /\ "records" \in DOMAIN payload
    /\ payload["records"].type = "dict"
    /\ pc = "raised"

\* C4: when the translation capability fails on a chunk of a record whose
\* normalized text is not empty, the failure does not abort: what was
\* translated is discarded, the scorer is called exactly once, on the whole
\* original text, and once the scorer returns a DayEmotion is added and the
\* batch goes on.
C4_TranslationFailureFallsBack ==
    \A i \in 1..Len(calls) :
        Failed(calls[i], "translate") =>
            LET log == calls[i]
                n == Len(log)
                rec == records.elems[i].items
            IN  /\ Joined(rec) # <<>>
                /\ n >= 2
                /\ \A k \in 1..(n - 1) : log[k].cap = "translate" /\ (log[k].ok <=> k < n - 1)
                /\ log[n].cap = "score"
                /\ log[n].arg = Joined(rec)
                /\ log[n].ok =>
                      /\ ~(pc = "raised" /\ idx = i)
                      /\ Len(analyzed) >= DictCount(i)
                      /\ pc \in {"loop", "raised"} =>
                            analyzed[DictCount(i)].date = Get(rec, "date", <<>>)

C4_Witness ==
    /\ pc = "loop"
    /\ idx = 2
    /\ Len(calls[1]) = 3
    /\ ~calls[1][2].ok
    /\ calls[1][3].ok
    /\ Len(analyzed) = 2
    /\ Failed(calls[2], "translate")
    /\ Len(calls[2]) = 2

\* the four text fields of a record are each empty or absent
NoText(record) == \A k \in 1..4 : Get(record, TextKeys[k], <<>>) = <<>>

\* C5: a mapping record whose four text fields are each empty or absent
\* gives the DayEmotion (date, 0.0, neutral, 0.0, [calm]) and neither
\* capability is called for it, whatever the capabilities would have done.
C5_EmptyRecordFastPath ==
    \A i \in 1..Len(calls) :
        (IsDict(i) /\ NoText(records.elems[i].items)) =>
            LET expected == NeutralDay(Get(records.elems[i].items, "date", <<>>))
            IN  /\ calls[i] = <<>>
                /\ Len(analyzed) >= DictCount(i)
                /\ pc \in {"loop", "raised"} => analyzed[DictCount(i)] = expected
                /\ pc = "done" => \E k \in 1..Len(analyzed) : analyzed[k] = expected

C5_Witness ==
    /\ pc = "done"
    /\ Len(calls) = 3
    /\ IsDict(1) /\ records.elems[1].items = <<>>
    /\ IsDict(2) /\ NoText(records.elems[2].items) /\ records.elems[2].items # <<>>
    /\ calls[3] # <<>>

\* C6: on a run that no failure aborts, each mapping element of records
\* gives exactly one DayEmotion and each other element is skipped with no
\* capability call: the written timeline has as many entries as records has
\* mapping elements, summary.days is that number, and the timeline is in
\* ascending order of date.
C6_OneDayPerMapping ==
    /\ pc = "loop" => Len(analyzed) = DictCount(idx)
    /\ \A i \in 1..Len(calls) : ~IsDict(i) => calls[i] = <<>>
    /\ pc = "done" =>
          LET timeline == out_file[1].timeline
          IN  /\ Len(timeline) = DictCount(Len(records.elems))
              /\ out_file[1].summary.days = DictCount(Len(records.elems))
              /\ \A i, j \in 1..Len(timeline) :
                    i < j => ~StrLess(timeline[j].date, timeline[i].date)

C6_Witness ==
    /\ pc = "done"
    /\ Len(records.elems) = 3
    /\ ~IsDict(2)
    /\ IsDict(1) /\ IsDict(3)
    /\ StrLess(Get(records.elems[3].items, "date", <<>>), Get(records.elems[1].items, "date", <<>>))
    /\ Len(out_file[1].timeline) = 2

(***************************************************************************)
(* Input order.  A run over a permutation of records, with capabilities    *)
(* that are deterministic, meets for each record the outcomes the record   *)
(* met in this run: they are read back from the log of calls.              *)
(***************************************************************************)
\* no two calls of a capability on the same argument differ in outcome
DeterministicCalls ==
    \A i, j \in 1..Len(calls) :
        \A k \in 1..Len(calls[i]), l \in 1..Len(calls[j]) :
            (calls[i][k].cap = calls[j][l].cap /\ calls[i][k].arg = calls[j][l].arg) =>
                (calls[i][k].ok = calls[j][l].ok /\ calls[i][k].value = calls[j][l].value)

FailAtOf(log) ==
    IF Failed(log, "translate")
    THEN CHOOSE k \in 1..Len(log) : log[k].cap = "translate" /\ ~log[k].ok
    ELSE 0

ScoreOf(log) ==
    IF log # <<>> /\ log[Len(log)].cap = "score" /\ log[Len(log)].ok
    THEN [ok |-> TRUE, polarity |-> log[Len(log)].value[1],
          subjectivity |-> log[Len(log)].value[2]]
    ELSE [ok |-> FALSE, polarity |-> 0, subjectivity |-> 0]

Orders(n) == {f \in [1..n -> 1..n] : \A a, b \in 1..n : f[a] = f[b] => a = b}

RECURSIVE AnalyzeFrom(_, _)
AnalyzeFrom(order, k) ==
    IF k > Len(order) THEN <<>>
    ELSE LET i == order[k]
         IN  (IF IsDict(i)
              THEN analyze_record(records.elems[i].items, FailAtOf(calls[i]),
                                  ScoreOf(calls[i])).days
              ELSE <<>>)
             \o AnalyzeFrom(order, k + 1)

\* the document of the run over records taken in the given order
PermutedRun(order) == Document(AnalyzeFrom(order, 1))

DatesDistinct ==
    \A i, j \in 1..Len(records.elems) :
        (i # j /\ IsDict(i) /\ IsDict(j)) =>
            Get(records.elems[i].items, "date", <<>>) # Get(records.elems[j].items, "date", <<>>)

\* C3 as stated: with deterministic capabilities, a run over any
\* permutation of records writes the same timeline and the same summary,
\* also when records share a date or lack one.
C3_OrderIrrelevant ==
    (pc = "done" /\ DeterministicCalls) =>
        \A order \in Orders(Len(records.elems)) : PermutedRun(order) = out_file[1]

\* C3 as amended: with deterministic capabilities, a run over any
\* permutation of records whose mapping elements have pairwise distinct
\* dates (an absent date being the empty date) writes the same timeline
\* and the same summary.
C3_OrderIrrelevantDistinctDates ==
    (pc = "done" /\ DeterministicCalls /\ DatesDistinct) =>
        \A order \in Orders(Len(records.elems)) : PermutedRun(order) = out_file[1]

C3_Witness ==
    /\ pc = "done"
    /\ DeterministicCalls
    /\ DatesDistinct
    /\ Len(records.elems) = 3
    /\ \A i \in 1..3 : IsDict(i) /\ calls[i] # <<>>
    /\ analyzed[1].sentiment_score # analyzed[2].sentiment_score
    /\ StrLess(Get(records.elems[3].items, "date", <<>>), Get(records.elems[1].items, "date", <<>>))
    /\ PermutedRun(<<3, 2, 1>>) = out_file[1]

(***************************************************************************)
(* Specification of _chunk_text on its own                                 *)
(***************************************************************************)
Chars == {"a", "\n"}

StringsUpTo(n) == UNION {[1..k -> Chars] : k \in 0..n}

IdleMain ==
    /\ payload = <<>>
    /\ idx = 0
    /\ analyzed = <<>>
    /\ calls = <<>>
    /\ out_file = <<>>

InitChunk ==
    /\ IdleMain
    /\ pc = "call"
    /\ args \in [text : StringsUpTo(MaxLen), chunk_size : 1..MaxChunk]
    /\ ret = <<>>

CallChunk ==
    /\ pc = "call"
    /\ ret' = _chunk_text(args.text, args.chunk_size)
    /\ pc' = "return"
    /\ UNCHANGED <<payload, idx, analyzed, calls, out_file, args>>

NextChunk == CallChunk

SpecChunk == InitChunk /\ [][NextChunk]_vars

\* C10: the chunks of a string are contiguous pieces whose concatenation is
\* the string, none longer than the maximum, and a string no longer than
\* the maximum (the empty string included) gives exactly one chunk.
C10_ChunkRoundTrip ==
    pc = "return" =>
        /\ Join(<<>>, ret) = args.text
        /\ \A i \in 1..Len(ret) : Len(ret[i]) <= args.chunk_size
        /\ \A i \in 1..Len(ret) :
              ret[i] = Slice(args.text, SumSeq([j \in 1..(i - 1) |-> Len(ret[j])]),
                             SumSeq([j \in 1..i |-> Len(ret[j])]))
        /\ (Len(args.text) <= args.chunk_size => Len(ret) = 1)

C10_Witness ==
    /\ pc = "return"
    /\ Len(args.text) > 2 * args.chunk_size
    /\ Len(args.text) % args.chunk_size # 0
    /\ Len(ret) = 3

(***************************************************************************)
(* Specification of analyze_record on its own, the scorer returning        *)
(***************************************************************************)
RawSubjectivity == {-500, 0, 4499, 4500, 4501, 10000, 10500}

InitClassify ==
    /\ IdleMain
    /\ pc = "call"
    /\ args \in [record : {[date |-> <<2>>, experience |-> <<"a">>]},
                 failAt : {0},
                 sc : [ok : {TRUE}, polarity : (-MaxRaw)..MaxRaw,
                       subjectivity : RawSubjectivity]]
    /\ ret = <<>>

CallAnalyze ==
    /\ pc = "call"
    /\ ret' = analyze_record(args.record, args.failAt, args.sc)
    /\ pc' = "return"
    /\ UNCHANGED <<payload, idx, analyzed, calls, out_file, args>>

NextClassify == CallAnalyze

SpecClassify == InitClassify /\ [][NextClassify]_vars

Clamped(x, lo, hi) == IF x < lo THEN lo ELSE IF x > hi THEN hi ELSE x

Vocabulary == {"joy", "confidence", "calm", "frustration", "anxiety"}

\* C9: for the clamped polarity p and subjectivity s, the label stored is
\* positive iff p >= 0.2, negative iff p <= -0.2 and neutral otherwise; the
\* emotions stored are those of the first matching rule of the five; every
\* p with 0.15 <= p < 0.2 is neutral with [calm, confidence]; the emotions
\* are one or two tags of the vocabulary.
C9_Classification ==
    pc = "return" =>
        LET p == Clamped(args.sc.polarity, -10000, 10000)
            s == Clamped(args.sc.subjectivity, 0, 10000)
            d == ret.days[1]
            e == d.dominant_emotions
        IN  /\ ~ret.raised
            /\ Len(ret.days) = 1
            /\ d.sentiment_label = "positive" <=> p >= 2000
            /\ d.sentiment_label = "negative" <=> p <= -2000
            /\ d.sentiment_label = "neutral" <=> (p > -2000 /\ p < 2000)
            /\ (p >= 4500 /\ s >= 4500) => e = <<"joy", "confidence">>
            /\ (p >= 4500 /\ s < 4500) => e = <<"calm", "confidence">>
            /\ (p >= 1500 /\ p < 4500) => e = <<"calm", "confidence">>
            /\ (p <= -4500 /\ s >= 4500) => e = <<"frustration", "anxiety">>
            /\ (p <= -4500 /\ s < 4500) => e = <<"anxiety", "calm">>
            /\ (p <= -1500 /\ p > -4500) => e = <<"anxiety", "calm">>
            /\ (p > -1500 /\ p < 1500) => e = <<"calm">>
            /\ (p >= 1500 /\ p < 2000) =>
                  (d.sentiment_label = "neutral" /\ e = <<"calm", "confidence">>)
            /\ Len(e) \in {1, 2}
            /\ \A k \in 1..Len(e) : e[k] \in Vocabulary

C9_Witness ==
    /\ pc = "return"
    /\ args.sc.polarity = 1999
    /\ args.sc.subjectivity = 4500
    /\ ret.days[1].sentiment_score = 200
    /\ ret.days[1].sentiment_label = "neutral"
    /\ ret.days[1].dominant_emotions = <<"calm", "confidence">>

(***************************************************************************)
(* Specification of summarize on its own.  The days are what               *)
(* analyze_record returns for the samples, in ascending order of date.     *)
(***************************************************************************)
SummarizeSamples ==
    { <<0, 0>>, <<1204, 3000>>, <<2500, 3000>>, <<5000, 6000>>,
      <<-2500, 3000>>, <<-5000, 6000>> }

DayOf(i, ps) ==
    analyze_record([date |-> <<i>>, experience |-> <<"a">>], 0,
                   [ok |-> TRUE, polarity |-> ps[1], subjectivity |-> ps[2]]).days[1]

InitSummarize ==
    /\ IdleMain
    /\ pc = "call"
    /\ \E n \in 0..MaxDays :
          \E samples \in [1..n -> SummarizeSamples] :
              args = [days |-> [i \in 1..n |-> DayOf(i, samples[i])]]
    /\ ret = <<>>

CallSummarize ==
    /\ pc = "call"
    /\ ret' = summarize(args.days)
    /\ pc' = "return"
    /\ UNCHANGED <<payload, idx, analyzed, calls, out_file, args>>

NextSummarize == CallSummarize

SpecSummarize == InitSummarize /\ [][NextSummarize]_vars

\* C7: no day gives insufficient_data; one to three days give stable; from
\* four days on, the first half being the first n // 2 days and the second
\* half the others, the trend is improving exactly when the mean of the
\* second half exceeds the mean of the first by more than 0.12, declining
\* exactly when it is below it by more than 0.12, and stable otherwise.
C7_Trend ==
    pc = "return" =>
        LET n == Len(args.days)
            score == [i \in 1..n |-> args.days[i].sentiment_score]
            first == SubSeq(score, 1, n \div 2)
            second == SubSeq(score, (n \div 2) + 1, n)
            \* (mean(second) - mean(first)) * Len(first) * Len(second)
            scaled == SumSeq(second) * Len(first) - SumSeq(first) * Len(second)
            limit == 120 * Len(first) * Len(second)
        IN  /\ n = 0 => ret.trend = "insufficient_data"
            /\ n \in 1..3 => ret.trend = "stable"
            /\ n >= 4 =>
                  /\ Len(second) = n - n \div 2
                  /\ ret.trend = "improving" <=> scaled > limit
                  /\ ret.trend = "declining" <=> scaled < -limit
                  /\ ret.trend = "stable" <=> (scaled <= limit /\ scaled >= -limit)

C7_Witness ==
    /\ pc = "return"
    /\ Len(args.days) = 5
    /\ [i \in 1..5 |-> args.days[i].sentiment_score] = <<0, 0, 500, -250, 120>>
    /\ ret.trend = "improving"

RECURSIVE Flatten(_)
Flatten(lists) == IF lists = <<>> THEN <<>> ELSE Head(lists) \o Flatten(Tail(lists))

\* C8: most_common_emotions holds at most 3 entries, each with the number
\* of occurrences of its tag over all days, in non-increasing order of
\* count; no tag left out has a higher count than a listed one; tags of
\* equal count are in the order in which they were first seen, scanning the
\* days in order and each day's tags in order.
C8_MostCommonEmotions ==
    pc = "return" =>
        LET seen == Flatten([i \in 1..Len(args.days) |-> args.days[i].dominant_emotions])
            tags == {seen[k] : k \in 1..Len(seen)}
            Count(tag) == Cardinality({k \in 1..Len(seen) : seen[k] = tag})
            FirstSeen(tag) == CHOOSE k \in 1..Len(seen) :
                                 seen[k] = tag /\ \A l \in 1..(k - 1) : seen[l] # tag
            mc == ret.most_common_emotions
            listed == {mc[i].name : i \in 1..Len(mc)}
        IN  /\ Len(mc) <= 3
            /\ Len(mc) = Cardinality(listed)
            /\ listed \subseteq tags
            /\ (tags # {} => mc # <<>>)
            /\ \A i \in 1..Len(mc) : mc[i].count = Count(mc[i].name)
            /\ \A i, j \in 1..Len(mc) : i < j => mc[i].count >= mc[j].count
            /\ \A tag \in tags \ listed :
                  /\ Len(mc) = 3
                  /\ \A i \in 1..Len(mc) : Count(tag) <= mc[i].count
            /\ \A i, j \in 1..Len(mc) :
                  (i < j /\ mc[i].count = mc[j].count) =>
                      FirstSeen(mc[i].name) < FirstSeen(mc[j].name)

C8_Witness ==
    /\ pc = "return"
    /\ Len(args.days) = 3
    /\ args.days[1].dominant_emotions = <<"frustration", "anxiety">>
    /\ args.days[2].dominant_emotions = <<"joy", "confidence">>
    /\ args.days[3].dominant_emotions = <<"calm", "confidence">>
    /\ ret.most_common_emotions =
          << [name |-> "confidence", count |-> 2],
             [name |-> "frustration", count |-> 1],
             [name |-> "anxiety", count |-> 1] >>

====
